---------------------------- MODULE Spec2Model ----------------------------
(***************************************************************************)
(* A model of spectrology.py: convert() turns a grayscale image into a    *)
(* buffer of signed 16-bit samples, one burst of sine per bright pixel,    *)
(* added column by column, and writes the buffer to a WAV file.            *)
(*                                                                         *)
(* The script is Python 2 code: fpx = wavrate / pxs is handed to range(),  *)
(* which only accepts it when "/" on two ints is the integer (floor)       *)
(* division of Python 2.  All "/" on ints below are therefore floor        *)
(* divisions (freqrange / img.size[1], wavrate / pxs,                      *)
(* samples * frequency / samplerate).                                      *)
(***************************************************************************)
EXTENDS Integers, Sequences, FiniteSets, TLC

VARIABLES
    cfg,        \* the arguments of convert: minfreq, maxfreq, pxs, wavrate, rotate, invert
    orig,       \* the size of the image as it is in the input file (history)
    img,        \* img: the grayscale image, as transformed so far
    pc,         \* the position of convert
    err,        \* the exception that ended convert, "" when none
    interval,   \* interval (line 71)
    fpx,        \* fpx (line 73)
    data,       \* data = array.array('h') (line 74); data[k+1] is Python's data[k]
    x,          \* the column of the outer loop (line 78)
    y,          \* the row of the scan loop (line 80)
    row,        \* row: the segments genwave returned for column x (line 79)
    calls,      \* the arguments of the genwave calls of column x (history)
    i,          \* the sample index of the merge loop (line 86)
    j,          \* the position in row of the merge loop (line 87), from 0
    colStart,   \* data as it was when the merge of column x began (history)
    lastWrite,  \* the last write of the merge loop to data (history)
    out         \* the batches handed to output.writeframes (line 101)

vars == <<cfg, orig, img, pc, err, interval, fpx, data, x, y, row, calls,
          i, j, colStart, lastWrite, out>>

-----------------------------------------------------------------------------
(* Bounds of the model *)

MaxW == 2           \* small images are 1..MaxW wide
MaxH == 2           \* small images are 1..MaxH high
TallH == 129        \* the height of the tall image (129 * 255 > 32767)

(* Program constants *)

ShortMax == 32767       \* the largest value of an array('h') item
ShortMin == -32768      \* the smallest value of an array('h') item
White == 255            \* the largest brightness of a mode 'L' image

-----------------------------------------------------------------------------
(* Python 2 arithmetic *)

\* a / b on two ints: the floor of the quotient, for either sign of b # 0
FloorDiv(a, b) == IF b > 0 THEN a \div b ELSE (-a) \div (-b)

\* range(n): 0 .. n-1, empty when n <= 0
Range(n) == 0 .. (n - 1)

-----------------------------------------------------------------------------
(* The collaborators: PIL images, ImageOps.invert, Image.rotate *)

\* a mode 'L' image of the given size with the given pixels; px[x][y] is
\* img.getpixel((x, y))
Image(w, h, p) == [w |-> w, h |-> h, px |-> p]

\* ImageOps.invert (line 65): v -> 255 - v on every pixel
Invert(m) ==
    Image(m.w, m.h, [cx \in Range(m.w) |-> [cy \in Range(m.h) |-> White - m.px[cx][cy]]])

\* img.rotate(90) (line 61) where PIL takes its transpose path for a quarter
\* turn: the result is H x W, the image turned counter-clockwise
Rotate90Swap(m) ==
    Image(m.h, m.w, [cx \in Range(m.h) |-> [cy \in Range(m.w) |-> m.px[m.w - 1 - cy][cx]]])

\* img.rotate(90) (line 61) with expand left at its default, as documented:
\* the result has the size of the input; the pixel at (cx, cy) is the input
\* pixel nearest to the centre of (cx, cy) turned back around the centre of
\* the image, and 0 where that falls outside the input
Rotate90Keep(m) ==
    Image(m.w, m.h,
          [cx \in Range(m.w) |-> [cy \in Range(m.h) |->
              LET sx == FloorDiv(m.w + m.h - 2 * cy - 1, 2)
                  sy == FloorDiv(2 * cx + 1 + m.h - m.w, 2)
              IN  IF sx \in Range(m.w) /\ sy \in Range(m.h) THEN m.px[sx][sy] ELSE 0]])

\* the images img.rotate(90) can return, by the version of PIL installed
Rotations(m) == {Rotate90Swap(m), Rotate90Keep(m)}

-----------------------------------------------------------------------------
(* genwave (lines 110-116) *)

\* int(math.floor(math.sin(float(cycles) * 2 * math.pi * i / float(samples))
\*                * float(amplitude)))  (lines 114-115)
\* for a whole number of quarter turns, q = 4 * cycles * i / samples, and
\* |cycles| <= 12, in IEEE doubles: the sine is 0.0 at q = 0, 1.0 and -1.0 at
\* the odd quarter turns, and at the other multiples of pi a value of size
\* 1e-16 whose sign is that of -q at whole turns and that of q at half turns;
\* the floor of a tiny negative product is -1
SinFloor(cycles, k, samples, amplitude) ==
    LET q == (4 * cycles * k) \div samples
    IN  CASE q = 0 -> 0
          [] q # 0 /\ q % 4 = 1 -> amplitude
          [] q # 0 /\ q % 4 = 3 -> 0 - amplitude
          [] q > 0 /\ q % 4 = 0 /\ cycles <= 12 -> IF amplitude > 0 THEN -1 ELSE 0
          [] q > 0 /\ q % 4 = 2 /\ cycles <= 12 -> 0
          [] q < 0 /\ q % 4 = 0 /\ cycles >= -12 -> 0
          [] q < 0 /\ q % 4 = 2 /\ cycles >= -12 -> IF amplitude > 0 THEN -1 ELSE 0

\* cycles (line 111)
Cycles(frequency, samples, samplerate) == FloorDiv(samples * frequency, samplerate)

\* genwave(frequency, amplitude, samples, samplerate): the list a, as a sequence
Genwave(frequency, amplitude, samples, samplerate) ==
    [k \in 1 .. (IF samples > 0 THEN samples ELSE 0) |->
        SinFloor(Cycles(frequency, samples, samplerate), k - 1, samples, amplitude)]

-----------------------------------------------------------------------------
(* The sample buffer (lines 88-96) *)

\* data.insert(idx, v): v goes before position idx, at the end when idx is
\* past the end
Insert(d, idx, v) ==
    LET n == IF idx < Len(d) THEN idx ELSE Len(d)
    IN  SubSeq(d, 1, n) \o <<v>> \o SubSeq(d, n + 1, Len(d))

\* AddAt without the handler of OverflowError: the sum is stored as it is
AddAtUnclipped(d, idx, v) ==
    IF idx >= Len(d) THEN Insert(d, idx, v) ELSE [d EXCEPT ![idx + 1] = @ + v]

\* AddAt with a sum that wraps around in 16 bits instead of being clipped
AddAtWrapped(d, idx, v) ==
    IF idx >= Len(d)
    THEN Insert(d, idx, v)
    ELSE [d EXCEPT ![idx + 1] = ((@ + v - ShortMin) % (ShortMax - ShortMin + 1)) + ShortMin]

\* one pass of the try statement of lines 88-96 for data[idx] and v = j[i]
AddAt(d, idx, v) ==
    IF idx >= Len(d)
    THEN Insert(d, idx, v)                                  \* IndexError
    ELSE IF d[idx + 1] + v \in ShortMin .. ShortMax
         THEN [d EXCEPT ![idx + 1] = @ + v]
         ELSE IF v > 0                                      \* OverflowError
              THEN [d EXCEPT ![idx + 1] = ShortMax]
              ELSE [d EXCEPT ![idx + 1] = ShortMin]

\* the index the merge loop writes (lines 89, 91, 94, 96)
Index(cx, k, n) == k + cx * n

\* line 87 for one i: for j in row, here the segments lo..hi of row in their
\* order (the range is halved, and the first half evaluated before the second
\* is entered, to keep the evaluation shallow)
RECURSIVE MergeRows(_, _, _, _, _, _, _)
MergeRows(d, cx, n, segs, k, lo, hi) ==
    IF lo > hi THEN d
    ELSE IF lo = hi THEN AddAt(d, Index(cx, k, n), segs[lo][k + 1])
    ELSE LET mid == (lo + hi) \div 2
             first == MergeRows(d, cx, n, segs, k, lo, mid)
         IN  IF Len(first) >= 0
             THEN MergeRows(first, cx, n, segs, k, mid + 1, hi)
             ELSE first

\* lines 86-96 for one column: for i in range(fpx), from i = k on
RECURSIVE MergeFrom(_, _, _, _, _)
MergeFrom(d, cx, n, segs, k) ==
    IF k >= n THEN d
    ELSE LET merged == MergeRows(d, cx, n, segs, k, 1, Len(segs))
         IN  IF Len(merged) >= 0 THEN MergeFrom(merged, cx, n, segs, k + 1) ELSE merged

MergeColumn(d, cx, n, segs) == MergeFrom(d, cx, n, segs, 0)

-----------------------------------------------------------------------------
(* The inputs *)

\* brightness values of the pixels of the small images
Amps == {0, 200}

\* every image of 1..MaxW by 1..MaxH pixels over Amps
SmallImages ==
    UNION {{Image(w, h, p) : p \in [Range(w) -> [Range(h) -> Amps]]} :
              <<w, h>> \in (1 .. MaxW) \X (1 .. MaxH)}

\* one column of TallH white pixels: enough segments to leave the 16 bits
TallImages == {Image(1, TallH, [cx \in Range(1) |-> [cy \in Range(TallH) |-> White]])}

\* <<minfreq, maxfreq>>: a valid pair, an empty range and a reversed range
FreqPairs == {<<1, 3>>, <<2, 2>>, <<3, 1>>}

Config(f, p, r, ro, inv) ==
    [minfreq |-> f[1], maxfreq |-> f[2], pxs |-> p, wavrate |-> r,
     rotate |-> ro, invert |-> inv]

\* the arguments main passes on (lines 124-140): ints and flags
Configs ==
    {Config(f, p, r, ro, inv) :
        f \in FreqPairs, p \in {-1, 0, 1, 2}, r \in {0, 4}, ro \in BOOLEAN, inv \in BOOLEAN}

TallConfigs == {Config(<<1, 3>>, 1, 4, FALSE, FALSE)}

Inputs == (SmallImages \X Configs) \cup (TallImages \X TallConfigs)

NoWrite == [index |-> -1, lenBefore |-> 0, old |-> 0, value |-> 0]

-----------------------------------------------------------------------------
(* convert (lines 56-107) *)

Init ==
    /\ \E inp \in Inputs :
          /\ img = inp[1]
          /\ orig = [w |-> inp[1].w, h |-> inp[1].h]
          /\ cfg = inp[2]
    /\ pc = "rotate"
    /\ err = ""
    /\ interval = 0
    /\ fpx = 0
    /\ data = <<>>
    /\ x = 0
    /\ y = 0
    /\ row = <<>>
    /\ calls = <<>>
    /\ i = 0
    /\ j = 0
    /\ colStart = <<>>
    /\ lastWrite = NoWrite
    /\ out = <<>>

\* lines 60-61
Rotate ==
    /\ pc = "rotate"
    /\ IF cfg.rotate THEN img' \in Rotations(img) ELSE img' = img
    /\ pc' = "invert"
    /\ UNCHANGED <<cfg, orig, err, interval, fpx, data, x, y, row, calls, i, j,
                   colStart, lastWrite, out>>

\* lines 64-65
InvertImage ==
    /\ pc = "invert"
    /\ img' = IF cfg.invert THEN Invert(img) ELSE img
    /\ pc' = "output"
    /\ UNCHANGED <<cfg, orig, err, interval, fpx, data, x, y, row, calls, i, j,
                   colStart, lastWrite, out>>

\* lines 67-68: wave's setparams raises wave.Error('bad frame rate') for a
\* frame rate <= 0
OpenOutput ==
    /\ pc = "output"
    /\ IF cfg.wavrate <= 0
       THEN pc' = "error" /\ err' = "wave.Error"
       ELSE pc' = "setup" /\ err' = err
    /\ UNCHANGED <<cfg, orig, img, interval, fpx, data, x, y, row, calls, i, j,
                   colStart, lastWrite, out>>

\* yinv without the inversion of the row
YinvPlain(h, cy) == cy

\* yinv (line 81)
Yinv(h, cy) == h - cy - 1

\* the first argument of genwave (line 84)
Frequency(h, cy, step, minfreq) == Yinv(h, cy) * step + minfreq

\* the loop of line 78 at column cx: the next column, or the write of line 101
AtColumn(cx) ==
    /\ x' = cx
    /\ y' = 0
    /\ row' = <<>>
    /\ calls' = <<>>
    /\ pc' = IF cx < img.w THEN "scan" ELSE "write"

\* lines 70-78: wavrate / pxs raises ZeroDivisionError for pxs = 0
Setup ==
    /\ pc = "setup"
    /\ IF cfg.pxs = 0
       THEN /\ pc' = "error"
            /\ err' = "ZeroDivisionError"
            /\ interval' = FloorDiv(cfg.maxfreq - cfg.minfreq, img.h)
            /\ UNCHANGED <<fpx, data, x, y, row, calls>>
       ELSE /\ interval' = FloorDiv(cfg.maxfreq - cfg.minfreq, img.h)
            /\ fpx' = FloorDiv(cfg.wavrate, cfg.pxs)
            /\ data' = <<>>
            /\ err' = err
            /\ AtColumn(0)
    /\ UNCHANGED <<cfg, orig, img, i, j, colStart, lastWrite, out>>

\* lines 80-84 for one y, and line 86 after the last
ScanPixel ==
    /\ pc = "scan"
    /\ y < img.h
    /\ LET amp == img.px[x][y]
           frequency == Frequency(img.h, y, interval, cfg.minfreq)
       IN  IF amp > 0
           THEN /\ row' = Append(row, Genwave(frequency, amp, fpx, cfg.wavrate))
                /\ calls' = Append(calls, [y |-> y, frequency |-> frequency,
                                           amplitude |-> amp])
           ELSE UNCHANGED <<row, calls>>
    /\ y' = y + 1
    /\ IF y + 1 < img.h
       THEN UNCHANGED <<pc, i, j, colStart>>
       ELSE pc' = "merge" /\ i' = 0 /\ j' = 0 /\ colStart' = data
    /\ UNCHANGED <<cfg, orig, img, err, interval, fpx, data, x, lastWrite, out>>

\* the merge loop of lines 86-96 has nothing left to do for column x
MergeDone == pc = "merge" /\ (i >= fpx \/ Len(row) = 0)

\* lines 88-96 for one i and one j of row
MergeWrite ==
    /\ pc = "merge"
    /\ ~MergeDone
    /\ LET idx == Index(x, i, fpx)
           v == row[j + 1][i + 1]
       IN  /\ data' = AddAt(data, idx, v)
           /\ lastWrite' = [index |-> idx, lenBefore |-> Len(data),
                            old |-> IF idx < Len(data) THEN data[idx + 1] ELSE 0,
                            value |-> v]
    /\ IF j + 1 < Len(row)
       THEN j' = j + 1 /\ i' = i
       ELSE j' = 0 /\ i' = i + 1
    /\ UNCHANGED <<cfg, orig, img, pc, err, interval, fpx, x, y, row, calls,
                   colStart, out>>

\* EndColumn with the buffer flushed to the writer after every column
EndColumnFlush ==
    /\ MergeDone
    /\ AtColumn(x + 1)
    /\ out' = Append(out, data)
    /\ UNCHANGED <<cfg, orig, img, err, interval, fpx, data, i, j, colStart,
                   lastWrite>>

\* lines 98-99 and the next turn of the loop of line 78
EndColumn ==
    /\ MergeDone
    /\ AtColumn(x + 1)
    /\ UNCHANGED <<cfg, orig, img, err, interval, fpx, data, i, j, colStart,
                   lastWrite, out>>

\* lines 101-102
WriteFrames ==
    /\ pc = "write"
    /\ out' = Append(out, data)
    /\ pc' = "done"
    /\ UNCHANGED <<cfg, orig, img, err, interval, fpx, data, x, y, row, calls, i, j,
                   colStart, lastWrite>>

Next ==
    \/ Rotate
    \/ InvertImage
    \/ OpenOutput
    \/ Setup
    \/ ScanPixel
    \/ MergeWrite
    \/ EndColumn
    \/ WriteFrames

Spec == Init /\ [][Next]_vars

-----------------------------------------------------------------------------
(* Notions the claims use *)

\* the configuration the design calls valid
ValidConfiguration(c) ==
    c.minfreq < c.maxfreq /\ c.minfreq > 0 /\ c.pxs > 0 /\ c.wavrate > 0

\* the configurations the design rejects with InvalidConfiguration
InvalidConfiguration(c) ==
    c.minfreq >= c.maxfreq \/ c.pxs <= 0 \/ c.wavrate <= 0

\* n clipped to the 16 bits
Saturate(n) == IF n > ShortMax THEN ShortMax ELSE IF n < ShortMin THEN ShortMin ELSE n

\* acc plus sample k of the segments lo..hi, added one by one, saturating
\* at every addition
RECURSIVE SaturatedFrom(_, _, _, _, _)
SaturatedFrom(acc, segs, k, lo, hi) ==
    IF lo > hi THEN acc
    ELSE IF lo = hi THEN Saturate(acc + segs[lo][k + 1])
    ELSE LET mid == (lo + hi) \div 2
             first == SaturatedFrom(acc, segs, k, lo, mid)
         IN  IF first >= ShortMin
             THEN SaturatedFrom(first, segs, k, mid + 1, hi)
             ELSE first

\* the saturated sum of sample k of all the segments
SaturatedSum(segs, k) == SaturatedFrom(0, segs, k, 1, Len(segs))

\* the orders in which the segments of a column can be added: all of them for
\* up to three segments, the scan order and its reverse beyond
Orders(segs) ==
    LET n == Len(segs)
    IN  IF n <= 3
        THEN {[k \in 1 .. n |-> segs[f[k]]] :
                 f \in {g \in [1 .. n -> 1 .. n] :
                           \A a, b \in 1 .. n : a # b => g[a] # g[b]}}
        ELSE {segs, [k \in 1 .. n |-> segs[n + 1 - k]]}

\* the image is dark everywhere
Dark(m) == \A cx \in Range(m.w), cy \in Range(m.h) : m.px[cx][cy] = 0

\* the step-by-step merge and the merge of a whole column agree
MergeAgrees == MergeDone => data = MergeColumn(colStart, x, fpx, row)

-----------------------------------------------------------------------------
(* The claims *)

\* C1: with a valid configuration and no rotation, once column x is processed
\* the buffer is exactly (x+1) * fpx samples long, whatever the column holds,
\* and a dark image is written as W * fpx samples that are all 0.
C1_LengthAfterColumn ==
    (ValidConfiguration(cfg) /\ ~cfg.rotate) =>
        /\ MergeDone => Len(data) = (x + 1) * fpx
        /\ (pc = "done" /\ Dark(img)) =>
              /\ Len(out[1]) = img.w * fpx
              /\ \A k \in 1 .. Len(out[1]) : out[1][k] = 0

\* C2: with a valid configuration and no rotation, once a column x that has
\* bright pixels is merged, the sample at x * fpx + k is the saturated sum of
\* sample k of the segments of the column, for every k below fpx.
C2_MergedIsSaturatedSum ==
    (ValidConfiguration(cfg) /\ ~cfg.rotate /\ MergeDone /\ Len(row) > 0) =>
        \A k \in Range(fpx) :
            /\ Index(x, k, fpx) < Len(data)
            /\ data[Index(x, k, fpx) + 1] = SaturatedSum(row, k)

\* C3: every sample of the buffer is within [-32768, 32767] in every state.
C3_SamplesIn16Bits ==
    \A k \in 1 .. Len(data) : data[k] >= ShortMin /\ data[k] <= ShortMax

C3_Witness ==
    /\ lastWrite.index >= 0
    /\ lastWrite.index < lastWrite.lenBefore
    /\ lastWrite.old + lastWrite.value < ShortMin
    /\ data[lastWrite.index + 1] = ShortMin

\* C4: an add of v to an existing sample s stores 32767 when s + v > 32767,
\* -32768 when s + v < -32768, and s + v otherwise.
C4_AddSaturates ==
    (lastWrite.index >= 0 /\ lastWrite.index < lastWrite.lenBefore) =>
        LET sum == lastWrite.old + lastWrite.value
            stored == data[lastWrite.index + 1]
        IN  /\ sum > ShortMax => stored = ShortMax
            /\ sum < ShortMin => stored = ShortMin
            /\ (sum >= ShortMin /\ sum <= ShortMax) => stored = sum

C4_Witness ==
    /\ lastWrite.index >= 0
    /\ lastWrite.index < lastWrite.lenBefore
    /\ lastWrite.old + lastWrite.value > ShortMax
    /\ data[lastWrite.index + 1] = ShortMax

C6_InvalidConfigurationIsFatal ==
    (InvalidConfiguration(cfg) /\ ~cfg.rotate) => (out = <<>> /\ pc # "done")

\* C7: with the rotate flag on a W x H image, convert scans H columns.
C7_RotateSwapsAxes ==
    (cfg.rotate /\ pc # "rotate") => (img.w = orig.h /\ img.h = orig.w)

\* C8: with a valid configuration and no rotation, every write of the merge
\* loop is at an existing index or at the length of the buffer, never beyond.
C8_NoGapWrite ==
    (ValidConfiguration(cfg) /\ ~cfg.rotate) => lastWrite.index <= lastWrite.lenBefore

\* C9: with a valid configuration and no rotation, the buffer after the merge
\* of a column is the same for every order in which the segments of the
\* column are added.
C9_OrderIndependent ==
    (ValidConfiguration(cfg) /\ ~cfg.rotate /\ MergeDone) => \A segs \in Orders(row) : MergeColumn(colStart, x, fpx, segs) = data

\* C10: the buffer starts empty, x goes up one column at a time and only
\* once the merge of column x is over, and the buffer is handed to the writer
\* once, whole, after the last column; the conversion is done only then.
C10_OneWriteAtTheEnd ==
    [][ /\ pc = "setup" => (pc' = "error" \/ (data' = <<>> /\ x' = 0))
        /\ pc # "setup" => (x' = x \/ (x' = x + 1 /\ MergeDone))
        /\ out' # out => (out = <<>> /\ pc = "write" /\ x = img.w /\ out' = <<data>>)
        /\ Len(out') <= 1
        /\ pc' = "done" => Len(out') = 1
      ]_vars

C10_Witness == pc = "done" /\ img.w >= 2 /\ Len(out) = 1 /\ Len(out[1]) > 0

=============================================================================
